---- MODULE Spec2Model ----
(***************************************************************************)
(* A model of the statement aggregator: the per-institution ETL adapters,  *)
(* the keyword categoriser, the credit filter, the threshold checker, the  *)
(* PostgreSQL-backed txn table and the interactive upload workflow.        *)
(*                                                                         *)
(* Data representation                                                     *)
(*   text     a tuple of one-character strings, so that substring search   *)
(*            and character-level parsing can be computed                  *)
(*   float    [nan |-> BOOLEAN, v |-> Int]; v counts whole units, NaN v = 0 *)
(*   date     <<year, month, day>>                                         *)
(*   frame    [index |-> tuple of labels, data |-> tuple of rows]          *)
(***************************************************************************)
EXTENDS Integers, Sequences, FiniteSets, TLC

VARIABLES
    pc,                 \* position of the running function / of main()
    arg,                \* arguments of the function under call
    ret,                \* its return value
    CATEGORY_KEYWORDS,  \* etl/categorization.py module global (loaded once)
    txn,                \* the rows of table txn
    txn_id_seq,         \* the next value of the SERIAL column txn_id
    table_exists,       \* whether table txn has been created
    run,                \* how many times main() has been started; the clock
                        \* that CURRENT_TIMESTAMP reads for created_at
    combined_df,        \* main(): the frame being uploaded
    data_month,         \* main(): month of the upload
    data_year,          \* main(): year of the upload
    exists,             \* main(): first result of check_month_year_exists
    count,              \* main(): second result of check_month_year_exists
    engine,             \* db.engine: "none", "open" or "disposed"
    seen,               \* what a concurrent reader's queries returned this run
    log                 \* history of the current run and of the last uploads

fnVars == <<arg, ret>>

dbVars == <<txn, txn_id_seq, table_exists>>

mainVars == <<run, combined_df, data_month, data_year, exists, count, engine>>

vars == <<pc, fnVars, CATEGORY_KEYWORDS, dbVars, mainVars, seen, log>>

----------------------------------------------------------------------------
(* Bounds of the model *)

MaxDescLen == 3     \* longest description text
MaxKeywords == 2    \* keywords per category
MaxFrame == 3       \* rows of a frame handed to a pure function
MaxRawRows == 2     \* rows of one raw export handed to an adapter
MaxStatementRows == 2   \* rows in all statement files of one run of main()
MaxRuns == 3        \* runs of main() against the database
MaxReads == 1       \* queries of the concurrent reader during one run
MaxBatch == 2       \* rows of a frame handed to insert_transactions
MaxAdapterRows == 2 \* rows of one adapter's output handed to the combination
MaxStored == 2      \* rows of the table when a query is made on its own
MaxConfigItems == 2 \* items of the list in the threshold configuration file

----------------------------------------------------------------------------
(* Generic helpers *)

Range(s) == {s[i] : i \in 1..Len(s)}

SeqsUpTo(S, n) == UNION {[1..k -> S] : k \in 0..n}

None == [none |-> TRUE]

EmptyFrame == [index |-> <<>>, data |-> <<>>]

NoLog == [before |-> {}, cleared |-> FALSE, replacing |-> FALSE, clean |-> TRUE,
          months |-> {}, prev |-> None, cur |-> None]

\* the state when the program starts against a database that holds nothing
Fresh ==
    /\ txn = {}
    /\ txn_id_seq = 1
    /\ table_exists = FALSE
    /\ run = 0
    /\ combined_df = EmptyFrame
    /\ data_month = 0
    /\ data_year = 0
    /\ exists = FALSE
    /\ count = 0
    /\ engine = "none"
    /\ seen = <<>>
    /\ log = NoLog

----------------------------------------------------------------------------
(* Floats as pandas / Python see them *)

NaN == [nan |-> TRUE, v |-> 0]

Num(n) == [nan |-> FALSE, v |-> n]

\* math.isnan
isnan(x) == x.nan

\* x <= 0 on floats: every comparison with NaN is False
LeZero(x) == ~x.nan /\ x.v <= 0

\* x > y on floats
Gt(x, y) == ~x.nan /\ ~y.nan /\ x.v > y.v

\* -1 * x
Neg(x) == IF x.nan THEN NaN ELSE Num(0 - x.v)

\* x - y
Sub(x, y) == IF x.nan \/ y.nan THEN NaN ELSE Num(x.v - y.v)

\* Series.abs
Abs(x) == IF x.nan THEN NaN ELSE Num(IF x.v < 0 THEN 0 - x.v ELSE x.v)

----------------------------------------------------------------------------
(* etl/categorization.py *)

Chars == {"a", "A", "b"}

\* str.upper on one character
UpperChar(c) == CASE c = "a" -> "A"
                  [] c = "b" -> "B"
                  [] OTHER -> c

\* str.upper
upper(s) == [i \in 1..Len(s) |-> UpperChar(s[i])]

\* Python's `k in s` on strings
In(k, s) == \E i \in 0..(Len(s) - Len(k)) : SubSeq(s, i + 1, i + Len(k)) = k

\* the inner loop: for keyword in keywords
RECURSIVE AnyKeyword(_, _)
AnyKeyword(keywords, desc_upper) ==
    IF keywords = <<>> THEN FALSE
    ELSE IF In(upper(Head(keywords)), desc_upper) THEN TRUE
    ELSE AnyKeyword(Tail(keywords), desc_upper)

\* the outer loop: for category, keywords in CATEGORY_KEYWORDS.items()
RECURSIVE CategoryLoop(_, _)
CategoryLoop(items, desc_upper) ==
    IF items = <<>> THEN "Uncategorized"
    ELSE IF AnyKeyword(Head(items).keywords, desc_upper) THEN Head(items).category
    ELSE CategoryLoop(Tail(items), desc_upper)

Reverse(s) == [i \in 1..Len(s) |-> s[Len(s) + 1 - i]]

\* mutant: the loop does not stop at the first hit, so the last category wins
categorize_last_match(description) ==
    CategoryLoop(Reverse(CATEGORY_KEYWORDS), upper(description))

categorize_transaction(description) ==
    CategoryLoop(CATEGORY_KEYWORDS, upper(description))

\* the rule sets and descriptions the categoriser is run on
Descriptions == SeqsUpTo(Chars, MaxDescLen)

Keywords == {<<"a">>, <<"A", "b">>, <<"b">>}

KeywordLists == SeqsUpTo(Keywords, MaxKeywords)

RuleSets ==
    {<<>>}
    \cup {<<[category |-> c, keywords |-> k]>> :
             c \in {"Coffee", "Dining"}, k \in KeywordLists}
    \cup {<<[category |-> c[1], keywords |-> k1], [category |-> c[2], keywords |-> k2]>> :
             c \in {<<"Coffee", "Dining">>, <<"Dining", "Coffee">>},
             k1 \in KeywordLists, k2 \in KeywordLists}

InitCategorize ==
    /\ pc = "call"
    /\ CATEGORY_KEYWORDS \in RuleSets
    /\ arg \in Descriptions
    /\ ret = None
    /\ Fresh

Categorize ==
    /\ pc = "call"
    /\ ret' = categorize_transaction(arg)
    /\ pc' = "return"
    /\ UNCHANGED <<arg, CATEGORY_KEYWORDS, dbVars, mainVars, seen, log>>

NextCategorize == Categorize

SpecCategorize == InitCategorize /\ [][NextCategorize]_vars

----------------------------------------------------------------------------
(* etl/filter_negs.py *)

\* data.loc[x, "amount"] on a frame whose labels are unique
Loc(data, x) == data.data[CHOOSE i \in 1..Len(data.index) : data.index[i] = x]

\* the rows of a frame at the positions in keep, in order, labels kept
TakeRows(df, keep) ==
    LET pos(k) == CHOOSE i \in keep : Cardinality({j \in keep : j < i}) = k - 1
    IN  [index |-> [k \in 1..Cardinality(keep) |-> df.index[pos(k)]],
         data  |-> [k \in 1..Cardinality(keep) |-> df.data[pos(k)]]]

\* data.drop(x, inplace=True)
Drop(data, x) == TakeRows(data, {i \in 1..Len(data.index) : data.index[i] # x})

\* for x in data.index: the labels of the frame as it was when the loop began
RECURSIVE FilterLoop(_, _)
FilterLoop(labels, data) ==
    IF labels = <<>> THEN data
    ELSE LET x == Head(labels)
             amount == Loc(data, x).amount
         IN  FilterLoop(Tail(labels),
                        IF LeZero(amount) \/ isnan(amount) THEN Drop(data, x) ELSE data)

\* mutant: `< 0` for `<= 0`, so a zero amount is kept
RECURSIVE FilterLoopStrict(_, _)
FilterLoopStrict(labels, data) ==
    IF labels = <<>> THEN data
    ELSE LET x == Head(labels)
             amount == Loc(data, x).amount
         IN  FilterLoopStrict(Tail(labels),
                        IF (~amount.nan /\ amount.v < 0) \/ isnan(amount)
                        THEN Drop(data, x) ELSE data)

filter_cr_strict(data) == FilterLoopStrict(data.index, data)

\* mutant: the loop walks positions of the frame it is shrinking, so the row
\* that moves into a dropped row's place is never looked at
RECURSIVE FilterLoopByPosition(_, _)
FilterLoopByPosition(i, data) ==
    IF i > Len(data.index) THEN data
    ELSE LET amount == data.data[i].amount
         IN  FilterLoopByPosition(i + 1,
                        IF LeZero(amount) \/ isnan(amount)
                        THEN TakeRows(data, (1..Len(data.index)) \ {i}) ELSE data)

filter_cr_by_position(data) == FilterLoopByPosition(1, data)

filter_cr(data) == FilterLoop(data.index, data)

\* reset_index(drop=True): labels 0..n-1
Frame(rows) == [index |-> [i \in 1..Len(rows) |-> i - 1], data |-> rows]

Amounts == {Num(0 - 5), Num(0), Num(5), NaN}

FilterRows ==
    [date : {<<2025, 12, 15>>}, amount : Amounts, description : {<<"a">>, <<"b">>},
     account : {"Scotiabank"}, category : {"Uncategorized"}]

InitFilter ==
    /\ pc = "call"
    /\ CATEGORY_KEYWORDS = <<>>
    /\ arg \in {Frame(rows) : rows \in SeqsUpTo(FilterRows, MaxFrame)}
    /\ ret = None
    /\ Fresh

Filter ==
    /\ pc = "call"
    /\ ret' = filter_cr(arg)
    /\ pc' = "return"
    /\ UNCHANGED <<arg, CATEGORY_KEYWORDS, dbVars, mainVars, seen, log>>

\* filter_cr applied to the frame filter_cr returned
FilterAgain ==
    /\ pc = "return"
    /\ ret' = filter_cr(ret)
    /\ pc' = "again"
    /\ UNCHANGED <<arg, CATEGORY_KEYWORDS, dbVars, mainVars, seen, log>>

NextFilter == Filter \/ FilterAgain

SpecFilter == InitFilter /\ [][NextFilter]_vars

----------------------------------------------------------------------------
(* etl/threshold_checker.py *)

\* df['category'].map(threshold_config): NaN where the key is missing
MapThreshold(category, threshold_config) ==
    IF category \in DOMAIN threshold_config THEN Num(threshold_config[category]) ELSE NaN

WithThreshold(row, threshold_config) ==
    [date |-> row.date, amount |-> row.amount, description |-> row.description,
     account |-> row.account, category |-> row.category,
     threshold |-> MapThreshold(row.category, threshold_config)]

WithExcess(row) ==
    [date |-> row.date, amount |-> row.amount, description |-> row.description,
     account |-> row.account, category |-> row.category,
     threshold |-> row.threshold,
     excess_amount |-> Sub(Abs(row.amount), row.threshold)]

\* mutant: `>=` for `>` in the comparison with the limit
check_transaction_thresholds_ge(transactions_df, threshold_config) ==
    LET df == [index |-> transactions_df.index,
               data  |-> [i \in 1..Len(transactions_df.data) |->
                             WithThreshold(transactions_df.data[i], threshold_config)]]
        mask(row) == /\ Gt(row.threshold, Num(0))
                     /\ ~Gt(row.threshold, Abs(row.amount))
                     /\ ~row.amount.nan
        exceeded == TakeRows(df, {i \in 1..Len(df.index) : mask(df.data[i])})
    IN  [index |-> exceeded.index,
         data  |-> [i \in 1..Len(exceeded.data) |-> WithExcess(exceeded.data[i])]]

check_transaction_thresholds(transactions_df, threshold_config) ==
    LET df == [index |-> transactions_df.index,
               data  |-> [i \in 1..Len(transactions_df.data) |->
                             WithThreshold(transactions_df.data[i], threshold_config)]]
        mask(row) == /\ Gt(row.threshold, Num(0))
                     /\ Gt(Abs(row.amount), row.threshold)
        exceeded_thresholds == TakeRows(df, {i \in 1..Len(df.index) : mask(df.data[i])})
    IN  [index |-> exceeded_thresholds.index,
         data  |-> [i \in 1..Len(exceeded_thresholds.data) |->
                       WithExcess(exceeded_thresholds.data[i])]]

ThresholdCategories == {"Dining", "Coffee"}

Limits == {0 - 100, 0, 100}

ThresholdConfigs ==
    UNION {[D -> Limits] : D \in SUBSET ThresholdCategories}

ThresholdRows ==
    [date : {<<2025, 12, 15>>},
     amount : {Num(0 - 150), Num(50), Num(100), Num(150), Num(200), NaN},
     description : {<<"a">>}, account : {"RBC"}, category : ThresholdCategories]

InitThreshold ==
    /\ pc = "call"
    /\ CATEGORY_KEYWORDS = <<>>
    /\ arg \in [transactions_df : {Frame(rows) : rows \in SeqsUpTo(ThresholdRows, MaxFrame)},
                threshold_config : ThresholdConfigs]
    /\ ret = None
    /\ Fresh

CheckThresholds ==
    /\ pc = "call"
    /\ ret' = check_transaction_thresholds(arg.transactions_df, arg.threshold_config)
    /\ pc' = "return"
    /\ UNCHANGED <<arg, CATEGORY_KEYWORDS, dbVars, mainVars, seen, log>>

NextThreshold == CheckThresholds

SpecThreshold == InitThreshold /\ [][NextThreshold]_vars

----------------------------------------------------------------------------
(* The raw exports and pandas' reading of them                              *)
(*                                                                          *)
(* A date cell is a token [fmt, d]: the text of date d written in format    *)
(* fmt; fmt "" is an empty cell and fmt "?" text that is no date.  An       *)
(* amount or description cell is text; <<>> is an empty cell.               *)

EmptyDate == [fmt |-> "", d |-> <<0, 0, 0>>]

DateText(fmt, d) == [fmt |-> fmt, d |-> d]

\* a pandas Timestamp, and the missing one
Timestamp(d) == [fmt |-> "ts", d |-> d]

NaT == EmptyDate

\* an amount that pandas holds as a Python string (object dtype)
Str(text) == [nan |-> FALSE, v |-> 0, str |-> text]

IsStr(x) == "str" \in DOMAIN x

DigitVal(c) == CASE c = "1" -> 1 [] c = "5" -> 5 [] OTHER -> 0

IsDigits(text) == Len(text) > 0 /\ \A i \in 1..Len(text) : text[i] \in {"1", "5"}

RECURSIVE DigitsValue(_)
DigitsValue(text) ==
    IF text = <<>> THEN 0
    ELSE 10 * DigitsValue(SubSeq(text, 1, Len(text) - 1)) + DigitVal(text[Len(text)])

\* text that float() / the CSV reader accepts as a number: -?digits
IsNumeric(text) ==
    IF Len(text) > 0 /\ text[1] = "-" THEN IsDigits(Tail(text)) ELSE IsDigits(text)

ParseFloat(text) ==
    IF text[1] = "-" THEN Num(0 - DigitsValue(Tail(text))) ELSE Num(DigitsValue(text))

\* Series.replace('[\$,]', '', regex=True) on one string
StripCurrency(text) == SelectSeq(text, LAMBDA c : c \notin {"$", ","})

\* read_csv's type inference for one column: float64 when every non-empty
\* cell is a number, else object (every non-empty cell stays a string)
ReadColumn(cells) ==
    LET numeric == \A i \in 1..Len(cells) : cells[i] = <<>> \/ IsNumeric(cells[i])
    IN  [i \in 1..Len(cells) |->
            IF cells[i] = <<>> THEN NaN
            ELSE IF numeric THEN ParseFloat(cells[i])
            ELSE Str(cells[i])]

\* .replace('[\$,]', '', regex=True).astype(float) raises ValueError on this value
AmountFails(x) == IsStr(x) /\ ~IsNumeric(StripCurrency(x.str))

\* .replace('[\$,]', '', regex=True).astype(float) on one value of a column
\* read by read_csv that astype accepts
CleanAmount(x) == IF IsStr(x) THEN ParseFloat(StripCurrency(x.str)) ELSE x

\* -1 * value: on a Python string of an object column this is the empty string
NegValue(x) == IF IsStr(x) THEN Str(<<>>) ELSE Neg(x)

\* .fillna(0)
FillNa0(x) == IF x.nan THEN Num(0) ELSE x

\* pd.to_datetime(col, format=fmt) raises ValueError on this cell
StrptimeFails(cell, fmt) == cell.fmt \notin {"", fmt}

\* pd.to_datetime(col, format=fmt).dt.strftime("%Y-%m-%d") on one cell
StrptimeIso(cell, fmt) ==
    IF cell.fmt = "" THEN EmptyDate ELSE DateText("%Y-%m-%d", cell.d)

\* pd.to_datetime(col) without a format raises ValueError on this cell
ToDatetimeFails(cell) == cell.fmt = "?"

\* pd.to_datetime(col) without a format, on one cell
ToDatetime(cell) == IF cell.fmt = "" THEN NaT ELSE Timestamp(cell.d)

Ok(df) == [error |-> "", df |-> df]

Raise(e) == [error |-> e, df |-> EmptyFrame]

Row(date, amount, description, account, category) ==
    [date |-> date, amount |-> amount, description |-> description,
     account |-> account, category |-> category]

Column(raw, name) == [i \in 1..Len(raw.rows) |-> raw.rows[i][name]]

----------------------------------------------------------------------------
(* etl/amex_etl.py *)

process_amex_statement(file_path, raw) ==
    IF ~({"Date", "Amount", "Description"} \subseteq raw.columns) THEN Raise("KeyError")
    ELSE
    LET n == Len(raw.rows)
        account == IF "Gold" \in file_path.has THEN "AMEX Gold" ELSE "AMEX Cobalt"
        read == ReadColumn(Column(raw, "Amount"))
        amount == [i \in 1..n |-> CleanAmount(read[i])]
        date == [i \in 1..n |-> StrptimeIso(raw.rows[i].Date, "%d %b %Y")]
    IN  IF \E i \in 1..n : raw.rows[i].Description = <<>> THEN Raise("AttributeError")
        ELSE IF \E i \in 1..n : AmountFails(read[i]) THEN Raise("ValueError")
        ELSE IF \E i \in 1..n : StrptimeFails(raw.rows[i].Date, "%d %b %Y")
        THEN Raise("ValueError")
        ELSE Ok(Frame([i \in 1..n |->
                 Row(date[i], amount[i], raw.rows[i].Description, account,
                     categorize_transaction(raw.rows[i].Description))]))

----------------------------------------------------------------------------
(* etl/cibc_etl.py *)

\* header=None, names=[date, description, amount, CR, accct_no]: the columns
\* are taken by position, and the names left over when the file has fewer
\* fields read as NaN
process_cibc_statement(file_path, raw) ==
    LET n == Len(raw.rows)
        account == IF "Chq" \in file_path.has THEN "CIBC Chequing"
                   ELSE IF "67781" \in file_path.has THEN "CIBC LOC 67781"
                   ELSE IF "Indvl" \in file_path.has THEN "CIBC Individual"
                   ELSE "CIBC Costco CC"
        present(name) == name \in raw.columns
        amount == IF present("Amount") THEN ReadColumn(Column(raw, "Amount"))
                  ELSE [i \in 1..n |-> NaN]
        date == [i \in 1..n |-> IF present("Date") THEN raw.rows[i].Date ELSE EmptyDate]
        description == [i \in 1..n |->
                           IF present("Description") THEN raw.rows[i].Description ELSE <<>>]
    IN  IF \E i \in 1..n : description[i] = <<>> THEN Raise("AttributeError")
        ELSE Ok(Frame([i \in 1..n |->
                 Row(date[i], amount[i], description[i], account,
                     categorize_transaction(description[i]))]))

----------------------------------------------------------------------------
(* etl/scotia_etl.py *)

process_scotia_statement(file_path, raw) ==
    IF ~({"Date", "Amount", "Description"} \subseteq raw.columns) THEN Raise("KeyError")
    ELSE
    LET n == Len(raw.rows)
        read == ReadColumn(Column(raw, "Amount"))
        date == [i \in 1..n |->
                    LET t == ToDatetime(raw.rows[i].Date)
                    IN  IF t = NaT THEN EmptyDate ELSE DateText("%Y-%m-%d", t.d)]
    IN  IF \E i \in 1..n : raw.rows[i].Description = <<>> THEN Raise("AttributeError")
        ELSE IF \E i \in 1..n : ToDatetimeFails(raw.rows[i].Date) THEN Raise("ValueError")
        ELSE Ok(Frame([i \in 1..n |->
                 Row(date[i], NegValue(read[i]), raw.rows[i].Description, "Scotiabank",
                     categorize_transaction(raw.rows[i].Description))]))

----------------------------------------------------------------------------
(* etl/rbc_etl.py *)

process_rbc_statement(file_path, raw) ==
    IF ~({"Debit", "Credit", "Date", "Description"} \subseteq raw.columns)
    THEN Raise("KeyError")
    ELSE
    LET n == Len(raw.rows)
        readDebit == ReadColumn(Column(raw, "Debit"))
        readCredit == ReadColumn(Column(raw, "Credit"))
        debit == [i \in 1..n |-> CleanAmount(readDebit[i])]
        credit == [i \in 1..n |-> CleanAmount(readCredit[i])]
        date == [i \in 1..n |-> StrptimeIso(raw.rows[i].Date, "%B %d, %Y")]
    IN  IF \E i \in 1..n : AmountFails(readDebit[i]) \/ AmountFails(readCredit[i])
        THEN Raise("ValueError")
        ELSE IF \E i \in 1..n : raw.rows[i].Description = <<>> THEN Raise("AttributeError")
        ELSE IF \E i \in 1..n : StrptimeFails(raw.rows[i].Date, "%B %d, %Y")
        THEN Raise("ValueError")
        ELSE Ok(Frame([i \in 1..n |->
                 Row(date[i], Neg(Sub(FillNa0(debit[i]), FillNa0(credit[i]))),
                     raw.rows[i].Description, "RBC",
                     categorize_transaction(raw.rows[i].Description))]))

----------------------------------------------------------------------------
(* The eight statement files main.py reads, and the exports they may hold *)

Path(name, has) == [name |-> name, has |-> has]

CostcoPath == Path("data/cibcCostcoStmt.csv", {})
ChqPath == Path("data/cibcChqStmt.csv", {"Chq"})
IndvlPath == Path("data/cibcIndvlStmt.csv", {"Indvl"})
LocPath == Path("data/cibc67781Stmt.csv", {"67781"})
ScotiaPath == Path("data/scotiaStmt.csv", {})
AmexGoldPath == Path("data/AMEXGoldStmt.csv", {"Gold"})
AmexCobaltPath == Path("data/AMEXCobaltStmt.csv", {})
RbcPath == Path("data/rbcStmt.csv", {})

CibcPaths == {CostcoPath, ChqPath, IndvlPath, LocPath}
AmexPaths == {AmexGoldPath, AmexCobaltPath}
Paths == CibcPaths \cup AmexPaths \cup {ScotiaPath, RbcPath}

Institution(file_path) ==
    IF file_path \in CibcPaths THEN "CIBC"
    ELSE IF file_path \in AmexPaths THEN "AMEX"
    ELSE IF file_path = ScotiaPath THEN "Scotia"
    ELSE "RBC"

\* the date format each institution writes
NativeFormat(inst) ==
    CASE inst = "AMEX" -> "%d %b %Y"
      [] inst = "RBC" -> "%B %d, %Y"
      [] OTHER -> "%Y-%m-%d"

\* the header columns each institution writes (CIBC: the positional ones)
NativeColumns(inst) ==
    CASE inst = "RBC" -> {"Date", "Description", "Debit", "Credit"}
      [] inst = "CIBC" -> {"Date", "Description", "Amount", "CR"}
      [] OTHER -> {"Date", "Description", "Amount"}

RawRow(date, description, amount, debit, credit, cr) ==
    [Date |-> date, Description |-> description, Amount |-> amount,
     Debit |-> debit, Credit |-> credit, CR |-> cr]

Raw(columns, rows) == [columns |-> columns, rows |-> rows]

\* the columns an export may have: all of them, or some absent. A CIBC file
\* has no header and its fields are named by position, so it can only lack
\* its last fields.
ExportColumns(inst) ==
    IF inst = "CIBC"
    THEN {NativeColumns(inst), {"Date", "Description", "Amount"}, {"Date", "Description"},
          {"Date"}}
    ELSE {NativeColumns(inst)} \cup {NativeColumns(inst) \ {c} : c \in NativeColumns(inst)}

\* amount cells: empty, plain, negative, with currency formatting, not a number
AmountTexts ==
    {<<>>, <<"5">>, <<"-", "5">>, <<"$", "5">>, <<"-", "$", "5">>, <<"1", ",", "5">>, <<"x">>}

AdapterRawRows(inst) ==
    LET dates == {DateText(NativeFormat(inst), <<2025, 12, 15>>), DateText("?", <<0, 0, 0>>)}
        descs == {<<"a">>}
    IN  CASE inst = "RBC" ->
               {RawRow(d, t, <<>>, db, cr, <<>>) :
                    d \in dates, t \in descs, db \in AmountTexts, cr \in AmountTexts}
          [] inst = "CIBC" ->
               {RawRow(d, t, a, <<>>, <<>>, cr) :
                    d \in dates, t \in descs, a \in AmountTexts, cr \in {<<>>, <<"5">>}}
          [] OTHER ->
               {RawRow(d, t, a, <<>>, <<>>, <<>>) :
                    d \in dates, t \in descs, a \in AmountTexts}

InitAdapters ==
    /\ pc = "call"
    /\ CATEGORY_KEYWORDS = <<[category |-> "Coffee", keywords |-> <<<<"a">>>>]>>
    /\ \E file_path \in Paths :
         \E rows \in SeqsUpTo(AdapterRawRows(Institution(file_path)), MaxRawRows) :
           \E columns \in ExportColumns(Institution(file_path)) :
             arg = [file_path |-> file_path, raw |-> Raw(columns, rows)]
    /\ ret = None
    /\ Fresh

ProcessAmex ==
    /\ pc = "call"
    /\ Institution(arg.file_path) = "AMEX"
    /\ ret' = process_amex_statement(arg.file_path, arg.raw)
    /\ pc' = "return"
    /\ UNCHANGED <<arg, CATEGORY_KEYWORDS, dbVars, mainVars, seen, log>>

ProcessCibc ==
    /\ pc = "call"
    /\ Institution(arg.file_path) = "CIBC"
    /\ ret' = process_cibc_statement(arg.file_path, arg.raw)
    /\ pc' = "return"
    /\ UNCHANGED <<arg, CATEGORY_KEYWORDS, dbVars, mainVars, seen, log>>

ProcessScotia ==
    /\ pc = "call"
    /\ Institution(arg.file_path) = "Scotia"
    /\ ret' = process_scotia_statement(arg.file_path, arg.raw)
    /\ pc' = "return"
    /\ UNCHANGED <<arg, CATEGORY_KEYWORDS, dbVars, mainVars, seen, log>>

ProcessRbc ==
    /\ pc = "call"
    /\ Institution(arg.file_path) = "RBC"
    /\ ret' = process_rbc_statement(arg.file_path, arg.raw)
    /\ pc' = "return"
    /\ UNCHANGED <<arg, CATEGORY_KEYWORDS, dbVars, mainVars, seen, log>>

NextAdapters == ProcessAmex \/ ProcessCibc \/ ProcessScotia \/ ProcessRbc

SpecAdapters == InitAdapters /\ [][NextAdapters]_vars

----------------------------------------------------------------------------
(* Calendar months *)

DateLt(a, b) ==
    \/ a[1] < b[1]
    \/ a[1] = b[1] /\ a[2] < b[2]
    \/ a[1] = b[1] /\ a[2] = b[2] /\ a[3] < b[3]

DateLe(a, b) == a = b \/ DateLt(a, b)

\* date(year, month, 1)
MonthStart(year, month) == <<year, month, 1>>

\* the first day of the following month; December rolls over to January
MonthEnd(year, month) ==
    IF month = 12 THEN <<year + 1, 1, 1>> ELSE <<year, month + 1, 1>>

----------------------------------------------------------------------------
(* etl/database.py: table txn *)

\* a filter argument that is not supplied (None, or a falsy empty string)
NoDate == <<0, 0, 0>>
NoText == ""

RequiredColumns == {"date", "amount", "description", "account", "category"}

\* the WHERE clause get_transactions builds
Where(rows, start_date, end_date, category, account) ==
    {r \in rows :
        /\ start_date # NoDate => DateLe(start_date, r.dt)
        /\ end_date # NoDate => DateLe(r.dt, end_date)
        /\ category # NoText => r.category = category
        /\ account # NoText => r.account = account}

\* the rows of the frame get_transactions returns: those the SELECT matches,
\* or, when the query raises, the rows of the empty DataFrame of the except branch
SelectRows(ok, start_date, end_date, category, account) ==
    IF ok /\ table_exists THEN Where(txn, start_date, end_date, category, account) ELSE {}

\* the arrangements of a set of rows that ORDER BY dt DESC allows
RECURSIVE OrderByDtDesc(_)
OrderByDtDesc(rows) ==
    IF rows = {} THEN {<<>>}
    ELSE UNION {{<<r>> \o rest : rest \in OrderByDtDesc(rows \ {r})} :
                   r \in {r \in rows : \A q \in rows : ~DateLt(r.dt, q.dt)}}

\* an Optional[int] argument: <<>> is None, <<n>> is the integer n
NoLimit == <<>>

\* the columns of table txn (updated_at is not modelled)
TxnColumns == {"txn_id", "dt", "amt", "desc", "account", "category", "created_at"}

\* pd.read_sql_query: a frame with the columns of the table
QueryFrame(rows) == [columns |-> TxnColumns, rows |-> rows]

\* pd.DataFrame(): no column and no row
EmptyDataFrame == [columns |-> {}, rows |-> <<>>]

\* mutant: the except branch returns an empty frame that has the table's columns
get_transactions_failing_like_empty(ok, start_date, end_date, category, account, limit) ==
    LET rows == SelectRows(ok, start_date, end_date, category, account)
    IN  IF ~(ok /\ table_exists) \/ (limit # NoLimit /\ limit[1] < 0)
        THEN {QueryFrame(<<>>)}
        ELSE IF limit # NoLimit /\ limit[1] # 0
        THEN {QueryFrame(SubSeq(all, 1, IF limit[1] < Len(all) THEN limit[1] ELSE Len(all))) :
                  all \in OrderByDtDesc(rows)}
        ELSE {QueryFrame(all) : all \in OrderByDtDesc(rows)}

\* get_transactions: the frames it can return. `if limit:` adds LIMIT only for
\* a limit that is neither None nor 0; a failing query (no connection, no
\* table, the negative LIMIT that PostgreSQL rejects) ends in the except branch.
get_transactions(ok, start_date, end_date, category, account, limit) ==
    LET rows == SelectRows(ok, start_date, end_date, category, account)
    IN  IF ~(ok /\ table_exists) \/ (limit # NoLimit /\ limit[1] < 0)
        THEN {EmptyDataFrame}
        ELSE IF limit # NoLimit /\ limit[1] # 0
        THEN {QueryFrame(SubSeq(all, 1, IF limit[1] < Len(all) THEN limit[1] ELSE Len(all))) :
                  all \in OrderByDtDesc(rows)}
        ELSE {QueryFrame(all) : all \in OrderByDtDesc(rows)}

\* connect: True, or False from the except branch
connect(ok) == ok

RECURSIVE SumAmt(_)
SumAmt(rows) ==
    IF rows = {} THEN 0
    ELSE LET r == CHOOSE r \in rows : TRUE IN r.amt.v + SumAmt(rows \ {r})

MinDt(rows) == IF rows = {} THEN NoDate
               ELSE (CHOOSE r \in rows : \A q \in rows : ~DateLt(q.dt, r.dt)).dt

MaxDt(rows) == IF rows = {} THEN NoDate
               ELSE (CHOOSE r \in rows : \A q \in rows : ~DateLt(r.dt, q.dt)).dt

\* GROUP BY a column: count and SUM(amt) per value (the order of the groups
\* is not kept)
GroupBy(rows, column) ==
    [g \in {r[column] : r \in rows} |->
        [count |-> Cardinality({r \in rows : r[column] = g}),
         total_amount |-> SumAmt({r \in rows : r[column] = g})]]

\* the dict of the except branch
EmptyDict == <<>>

\* get_summary_stats; NoDate stands for the None of an empty date range
get_summary_stats(ok) ==
    IF ~(ok /\ table_exists) THEN EmptyDict
    ELSE [total_transactions |-> Cardinality(txn),
          total_amount |-> SumAmt(txn),
          date_range |-> [start |-> MinDt(txn), end |-> MaxDt(txn)],
          category_summary |-> GroupBy(txn, "category"),
          account_summary |-> GroupBy(txn, "account")]

\* create_txn_table: True, or False from the except branch
create_txn_table(ok) == ok

\* clear_table: the result and the rows the table holds afterwards
clear_table(ok) ==
    IF ok /\ table_exists THEN [result |-> TRUE, rows |-> {}]
    ELSE [result |-> FALSE, rows |-> txn]

\* pd.to_numeric(errors='coerce') on one value
ToNumeric(x) ==
    IF ~IsStr(x) THEN x
    ELSE IF IsNumeric(x.str) THEN ParseFloat(x.str)
    ELSE NaN

\* the row df_clean holds for a row of df, before dropna
CleanRow(row) ==
    [dt |-> ToDatetime(row.date).d, amt |-> ToNumeric(row.amount),
     desc |-> row.description, account |-> row.account, category |-> row.category]

\* a row of df_clean that dropna removes: one of its values is null
HasNull(row, clean) ==
    \/ ToDatetime(row.date) = NaT
    \/ clean.amt.nan
    \/ clean.desc = <<>>
    \/ clean.account = NoText
    \/ clean.category = NoText

\* df_clean after dropna, as a sequence of rows
RECURSIVE CleanRows(_)
CleanRows(rows) ==
    IF rows = <<>> THEN <<>>
    ELSE IF HasNull(Head(rows), CleanRow(Head(rows))) THEN CleanRows(Tail(rows))
    ELSE <<CleanRow(Head(rows))>> \o CleanRows(Tail(rows))

\* insert_transactions: [result, rows], the value returned and the rows that
\* to_sql appends; ok says whether the INSERT statement succeeds
insert_transactions(df, columns, ok) ==
    LET df_clean == CleanRows(df.data)
    IN  IF ~(RequiredColumns \subseteq columns) THEN [result |-> FALSE, rows |-> {}]
        ELSE IF \E i \in 1..Len(df.data) : ToDatetimeFails(df.data[i].date)
        THEN [result |-> FALSE, rows |-> {}]
        ELSE IF df_clean = <<>> THEN [result |-> FALSE, rows |-> {}]
        ELSE IF ~ok THEN [result |-> FALSE, rows |-> {}]
        ELSE [result |-> TRUE,
              rows |-> {[txn_id |-> txn_id_seq + i - 1,
                         dt |-> df_clean[i].dt, amt |-> df_clean[i].amt,
                         desc |-> df_clean[i].desc, account |-> df_clean[i].account,
                         category |-> df_clean[i].category,
                         created_at |-> run] : i \in 1..Len(df_clean)}]

----------------------------------------------------------------------------
(* main.py: the helpers of the upload workflow *)

\* mutant: `dt > start_date` for `dt >= start_date` in the DELETE
DeleteMonthAfterFirst(rows, month, year) ==
    {r \in rows : ~(DateLt(MonthStart(year, month), r.dt)
                     /\ DateLt(r.dt, MonthEnd(year, month)))}

\* mutant: `dt <= end_date` for `dt < end_date` in the DELETE
DeleteMonthThroughEnd(rows, month, year) ==
    {r \in rows : ~(DateLe(MonthStart(year, month), r.dt)
                     /\ DateLe(r.dt, MonthEnd(year, month)))}

\* the rows left by DELETE FROM txn WHERE dt >= start_date AND dt < end_date
DeleteMonth(rows, month, year) ==
    {r \in rows : ~(DateLe(MonthStart(year, month), r.dt)
                     /\ DateLt(r.dt, MonthEnd(year, month)))}

\* clear_month_year_data: the result and the rows the table holds afterwards
clear_month_year_data(ok, month, year) ==
    IF ok /\ table_exists THEN [result |-> TRUE, rows |-> DeleteMonth(txn, month, year)]
    ELSE [result |-> FALSE, rows |-> txn]

\* check_month_year_exists: <<not existing_data.empty, len(existing_data)>>
check_month_year_exists(ok, month, year) ==
    LET existing_data == SelectRows(ok, MonthStart(year, month),
                                    MonthEnd(year, month), NoText, NoText)
    IN  <<existing_data # {}, Cardinality(existing_data)>>

\* pd.concat(frames, ignore_index=True)
RECURSIVE Concat(_)
Concat(frames) ==
    IF frames = <<>> THEN <<>> ELSE Head(frames).data \o Concat(Tail(frames))

\* date a sorts before date b; NaT sorts last
SortsBefore(a, b) == a # NaT /\ (b = NaT \/ DateLt(a.d, b.d))

\* the orders of 1..n, as tuples
RECURSIVE Orders(_)
Orders(n) ==
    IF n = 0 THEN {<<>>}
    ELSE {SubSeq(o, 1, k) \o <<n>> \o SubSeq(o, k + 1, n - 1) :
              o \in Orders(n - 1), k \in 0..(n - 1)}

\* sort_values(by="date", ascending=True) with the default kind="quicksort":
\* the result is ordered by date with NaT last (the missing dates are appended
\* in their original order); quicksort is not a stable sort, so rows with
\* equal dates come out in whichever order the sort routine of the build leaves
SortOutcomes(rows) ==
    {[i \in 1..Len(rows) |-> rows[o[i]]] :
        o \in {o \in Orders(Len(rows)) :
                 \A i \in 1..Len(rows) : \A j \in (i + 1)..Len(rows) :
                     /\ ~SortsBefore(rows[o[j]].date, rows[o[i]].date)
                     /\ (rows[o[i]].date = NaT /\ rows[o[j]].date = NaT) => o[i] < o[j]}}

WithDate(row, date) ==
    [date |-> date, amount |-> row.amount, description |-> row.description,
     account |-> row.account, category |-> row.category]

\* the eight adapter calls, in the order main.py makes them
AdapterResults(files) ==
    <<process_cibc_statement(CostcoPath, files[CostcoPath]),
      process_cibc_statement(ChqPath, files[ChqPath]),
      process_cibc_statement(IndvlPath, files[IndvlPath]),
      process_cibc_statement(LocPath, files[LocPath]),
      process_scotia_statement(ScotiaPath, files[ScotiaPath]),
      process_amex_statement(AmexGoldPath, files[AmexGoldPath]),
      process_amex_statement(AmexCobaltPath, files[AmexCobaltPath]),
      process_rbc_statement(RbcPath, files[RbcPath])>>

\* main.py 36-38: concat, to_datetime, sort_values, reset_index; every frame
\* the lines can produce, or the exception of to_datetime
combine(frames) ==
    LET concat == Concat(frames)
        dated == [i \in 1..Len(concat) |-> WithDate(concat[i], ToDatetime(concat[i].date))]
    IN  IF \E i \in 1..Len(concat) : ToDatetimeFails(concat[i].date)
        THEN {Raise("ValueError")}
        ELSE {Ok(Frame(rows)) : rows \in SortOutcomes(dated)}

\* the exception of the first adapter call that raises
FirstError(results) ==
    Raise(results[CHOOSE i \in 1..8 :
              results[i].error # "" /\ \A h \in 1..(i - 1) : results[h].error = ""].error)

\* mutant: the combined frame is returned without the call of filter_cr
load_and_process_data_unfiltered(files) ==
    LET results == AdapterResults(files)
    IN  IF \E i \in 1..8 : results[i].error # "" THEN {FirstError(results)}
        ELSE {IF combined.error # "" THEN combined
              ELSE IF \E i \in 1..Len(combined.df.data) : IsStr(combined.df.data[i].amount)
              THEN Raise("TypeError")
              ELSE combined :
                    combined \in combine([i \in 1..8 |-> results[i].df])}

\* load_and_process_data: the frames it can return, or the exception that leaves it
load_and_process_data(files) ==
    LET results == AdapterResults(files)
    IN  IF \E i \in 1..8 : results[i].error # "" THEN {FirstError(results)}
        ELSE {IF combined.error # "" THEN combined
              \* filter_cr compares every amount with 0: a string amount raises TypeError
              ELSE IF \E i \in 1..Len(combined.df.data) : IsStr(combined.df.data[i].amount)
              THEN Raise("TypeError")
              ELSE Ok(filter_cr(combined.df)) :
                    combined \in combine([i \in 1..8 |-> results[i].df])}

\* combined_df['date'].dt.to_period('M'): the months of the frame (NaT has none)
Periods(df) ==
    {<<df.data[i].date.d[1], df.data[i].date.d[2]>> :
        i \in {j \in 1..Len(df.data) : df.data[j].date # NaT}}

\* mutant: date_range.index[-1], the latest month
LatestPeriod(df) ==
    CHOOSE p \in Periods(df) :
        \A q \in Periods(df) : p = q \/ q[1] < p[1] \/ (q[1] = p[1] /\ q[2] < p[2])

\* date_range.index[0]: the earliest month
EarliestPeriod(df) ==
    CHOOSE p \in Periods(df) :
        \A q \in Periods(df) : p = q \/ p[1] < q[1] \/ (p[1] = q[1] /\ p[2] < q[2])

\* combined_df[(date >= start_date) & (date < end_date)]
RowsOfMonth(df, month, year) ==
    TakeRows(df, {i \in 1..Len(df.data) :
                    /\ df.data[i].date # NaT
                    /\ DateLe(MonthStart(year, month), df.data[i].date.d)
                    /\ DateLt(df.data[i].date.d, MonthEnd(year, month))})

----------------------------------------------------------------------------
(* main.py: main(), option 2, one run after another against one database *)

\* the statement files that hold rows in the runs of the model; the other
\* four files are read too and hold no row
WorkflowPaths == {ChqPath, RbcPath}

WorkflowDates == {<<2025, 12, 1>>, <<2026, 1, 1>>}

\* per institution: a purchase, a credit and, for RBC, an amount that is no number
WorkflowAmounts(inst) ==
    CASE inst = "CIBC" -> {<<<<"5">>, <<>>, <<>>, <<>>>>, <<<<>>, <<>>, <<>>, <<"5">>>>}
      [] OTHER -> {<<<<>>, <<"5">>, <<>>, <<>>>>, <<<<>>, <<>>, <<"5">>, <<>>>>,
                   <<<<>>, <<"x">>, <<>>, <<>>>>}

\* a statement row of the model: <<amount, debit, credit, cr>> on one of the dates
Entries ==
    UNION {{<<p, RawRow(DateText(NativeFormat(Institution(p)), d), <<"a">>,
                        m[1], m[2], m[3], m[4])>> :
               d \in WorkflowDates, m \in WorkflowAmounts(Institution(p))} :
           p \in WorkflowPaths}

RECURSIVE RowsFor(_, _)
RowsFor(chosen, p) ==
    IF chosen = <<>> THEN <<>>
    ELSE IF Head(chosen)[1] = p THEN <<Head(chosen)[2]>> \o RowsFor(Tail(chosen), p)
    ELSE RowsFor(Tail(chosen), p)

\* the data folder: every file with its institution's columns and its rows
Files(chosen) ==
    [p \in Paths |-> Raw(NativeColumns(Institution(p)), RowsFor(chosen, p))]

Running == pc \in {"connect", "create_table", "check_exists", "clear", "insert", "close"}

InitMain ==
    /\ pc = "idle"
    /\ CATEGORY_KEYWORDS = <<[category |-> "Coffee", keywords |-> <<<<"a">>>>]>>
    /\ arg = None
    /\ ret = None
    /\ Fresh

\* python3 main.py
StartMain ==
    /\ pc \in {"idle", "returned", "crashed"}
    /\ run < MaxRuns
    /\ pc' = "menu"
    /\ run' = run + 1
    /\ combined_df' = EmptyFrame
    /\ data_month' = 0
    /\ data_year' = 0
    /\ exists' = FALSE
    /\ count' = 0
    /\ engine' = "none"
    /\ seen' = <<>>
    /\ log' = [log EXCEPT !.before = {}, !.cleared = FALSE, !.replacing = FALSE,
                          !.clean = TRUE, !.months = {}]
    /\ arg' = None
    /\ UNCHANGED <<ret, CATEGORY_KEYWORDS, dbVars>>

\* choice "2" up to the database connection: load, month analysis, confirmation
Upload ==
    /\ pc = "menu"
    /\ \E chosen \in SeqsUpTo(Entries, MaxStatementRows), proceed \in {"y", "n"} :
       \E loaded \in load_and_process_data(Files(chosen)) :
         LET df == loaded.df
             several == Cardinality(Periods(df)) > 1
             earliest == EarliestPeriod(df)
             first == df.data[1].date
         IN  /\ log' = [log EXCEPT !.months = IF loaded.error # "" THEN {} ELSE Periods(df)]
             /\ IF loaded.error # "" THEN
                    /\ pc' = "crashed"
                    /\ UNCHANGED <<combined_df, data_month, data_year>>
                ELSE IF df.data = <<>> THEN
                    /\ pc' = "returned"
                    /\ combined_df' = df
                    /\ UNCHANGED <<data_month, data_year>>
                ELSE IF several THEN
                    /\ combined_df' = RowsOfMonth(df, earliest[2], earliest[1])
                    /\ data_year' = earliest[1]
                    /\ data_month' = earliest[2]
                    /\ pc' = IF proceed = "y" THEN "connect" ELSE "returned"
                ELSE IF first = NaT THEN
                    \* calendar.month_name[nan] raises TypeError
                    /\ pc' = "crashed"
                    /\ combined_df' = df
                    /\ UNCHANGED <<data_month, data_year>>
                ELSE
                    /\ combined_df' = df
                    /\ data_month' = first.d[2]
                    /\ data_year' = first.d[1]
                    /\ pc' = "connect"
    /\ UNCHANGED <<fnVars, CATEGORY_KEYWORDS, dbVars, run, exists, count, engine, seen>>

\* db = ExpenseDatabase(); db.connect()
Connect ==
    /\ pc = "connect"
    /\ \E ok \in BOOLEAN :
         IF ok THEN /\ engine' = "open"
                    /\ pc' = "create_table"
                    /\ log' = log
         ELSE /\ engine' = "unreachable"
              /\ pc' = "returned"
              /\ log' = [log EXCEPT !.clean = FALSE]
    /\ UNCHANGED <<fnVars, CATEGORY_KEYWORDS, dbVars, run, combined_df, data_month,
                   data_year, exists, count, seen>>

\* db.create_txn_table()
CreateTable ==
    /\ pc = "create_table"
    /\ \E ok \in BOOLEAN :
         IF ok THEN /\ table_exists' = TRUE
                    /\ pc' = "check_exists"
                    /\ UNCHANGED <<engine, log>>
         ELSE /\ engine' = "disposed"
              /\ pc' = "returned"
              /\ log' = [log EXCEPT !.clean = FALSE]
              /\ UNCHANGED table_exists
    /\ UNCHANGED <<fnVars, CATEGORY_KEYWORDS, txn, txn_id_seq, run, combined_df,
                   data_month, data_year, exists, count, seen>>

\* check_month_year_exists and, when data exists, the overwrite prompt
CheckExists ==
    /\ pc = "check_exists"
    /\ \E ok \in BOOLEAN, overwrite \in {"y", "n"} :
         LET found == check_month_year_exists(ok, data_month, data_year)
         IN  /\ exists' = found[1]
             /\ count' = found[2]
             /\ IF found[1] /\ overwrite # "y"
                THEN /\ engine' = "disposed"
                     /\ pc' = "returned"
                     /\ log' = [log EXCEPT !.clean = @ /\ ok]
                ELSE /\ engine' = engine
                     /\ pc' = IF found[1] THEN "clear" ELSE "insert"
                     /\ log' = [log EXCEPT !.before = txn, !.replacing = found[1],
                                           !.clean = @ /\ ok]
    /\ UNCHANGED <<fnVars, CATEGORY_KEYWORDS, dbVars, run, combined_df, data_month,
                   data_year, seen>>

\* clear_month_year_data(db, data_month, data_year): DELETE and commit
ClearMonth ==
    /\ pc = "clear"
    /\ \E ok \in BOOLEAN :
         IF ok THEN /\ txn' = DeleteMonth(txn, data_month, data_year)
                    /\ pc' = "insert"
                    /\ log' = [log EXCEPT !.cleared = TRUE]
                    /\ UNCHANGED engine
         ELSE /\ engine' = "disposed"
              /\ pc' = "returned"
              /\ log' = [log EXCEPT !.clean = FALSE]
              /\ UNCHANGED txn
    /\ UNCHANGED <<fnVars, CATEGORY_KEYWORDS, txn_id_seq, table_exists, run, combined_df,
                   data_month, data_year, exists, count, seen>>

\* the multiset of transactions in a set of table rows, ids and timestamps left out
Content(rows) ==
    LET t(r) == <<r.dt, r.amt, r.desc, r.account, r.category>>
    IN  {<<t(r), Cardinality({q \in rows : t(q) = t(r)})>> : r \in rows}

\* db.insert_transactions(combined_df)
Insert ==
    /\ pc = "insert"
    /\ \E ok \in BOOLEAN :
         LET done == insert_transactions(combined_df, RequiredColumns, ok)
         IN  IF done.result
             THEN /\ txn' = txn \cup done.rows
                  /\ txn_id_seq' = txn_id_seq + Cardinality(done.rows)
                  /\ pc' = "close"
                  /\ engine' = engine
                  /\ log' = [log EXCEPT
                               !.prev = log.cur,
                               !.cur = [run |-> run, clean |-> log.clean,
                                        month |-> <<data_year, data_month>>,
                                        batch |-> combined_df.data,
                                        after |-> Content(txn \cup done.rows)]]
             ELSE /\ engine' = engine
                  /\ pc' = "insert_failed"
                  /\ log' = [log EXCEPT !.clean = FALSE]
                  /\ UNCHANGED <<txn, txn_id_seq>>
    /\ UNCHANGED <<fnVars, CATEGORY_KEYWORDS, table_exists, run, combined_df, data_month,
                   data_year, exists, count, seen>>

\* "Failed to upload transactions to database."; db.close() is done; return
ReturnAfterFailedInsert ==
    /\ pc = "insert_failed"
    /\ engine' = "disposed"
    /\ pc' = "returned"
    /\ UNCHANGED <<fnVars, CATEGORY_KEYWORDS, dbVars, run, combined_df, data_month,
                   data_year, exists, count, seen, log>>

\* db.close(), then the reports
Close ==
    /\ pc = "close"
    /\ engine' = "disposed"
    /\ pc' = "returned"
    /\ UNCHANGED <<fnVars, CATEGORY_KEYWORDS, dbVars, run, combined_df, data_month,
                   data_year, exists, count, seen, log>>

\* the rows of a set of table rows that are dated inside a month
MonthRows(rows, month, year) ==
    {r \in rows : DateLe(MonthStart(year, month), r.dt) /\ DateLt(r.dt, MonthEnd(year, month))}

\* another session reads the month being replaced, as option 1 of main() does
\* (get_transactions with the month's start and end), while the replace goes on
ReaderQuery ==
    /\ pc \in {"clear", "insert", "insert_failed", "close"}
    /\ log.replacing
    /\ Len(seen) < MaxReads
    /\ seen' = Append(seen,
                 SelectRows(TRUE, MonthStart(data_year, data_month),
                            MonthEnd(data_year, data_month), NoText, NoText))
    /\ UNCHANGED <<pc, fnVars, CATEGORY_KEYWORDS, dbVars, mainVars, log>>

\* what is typed at "Enter month number (1-12)" and "Enter year"
ViewMonths == {1, 12, 13}

ViewYears == {2025, 2026}

\* rename(columns={'dt': 'date', 'amt': 'amount', 'desc': 'description'}) and
\* pd.to_datetime on the date column (txn_id and created_at are left out)
Renamed(rows) ==
    Frame([i \in 1..Len(rows) |->
             [date |-> Timestamp(rows[i].dt), amount |-> rows[i].amt,
              description |-> rows[i].desc, account |-> rows[i].account,
              category |-> rows[i].category]])

\* the columns of a query result after the rename
RenamedColumns(columns) ==
    {CASE c = "dt" -> "date" [] c = "amt" -> "amount" [] c = "desc" -> "description"
       [] OTHER -> c : c \in columns}

\* choice "1": db = ExpenseDatabase(); db.connect()
ViewConnect ==
    /\ pc = "menu"
    /\ \E ok \in BOOLEAN :
         IF connect(ok) THEN /\ engine' = "open"
                             /\ pc' = "view_stats"
                             /\ log' = log
         ELSE /\ engine' = "unreachable"
              /\ pc' = "returned"
              /\ log' = [log EXCEPT !.clean = FALSE]
    /\ UNCHANGED <<fnVars, CATEGORY_KEYWORDS, dbVars, run, combined_df, data_month,
                   data_year, exists, count, seen>>

\* stats = db.get_summary_stats(); an empty database closes and returns
ViewStats ==
    /\ pc = "view_stats"
    /\ \E ok \in BOOLEAN :
         LET stats == get_summary_stats(ok)
         IN  IF stats = EmptyDict \/ stats.total_transactions = 0
             THEN /\ engine' = "disposed"
                  /\ pc' = "returned"
             ELSE /\ engine' = engine
                  /\ pc' = "view_prompt"
    /\ UNCHANGED <<fnVars, CATEGORY_KEYWORDS, dbVars, run, combined_df, data_month,
                   data_year, exists, count, seen, log>>

\* the month and year prompts and check_month_year_exists; a month outside
\* 1..12 is asked for again
ViewPrompt ==
    /\ pc = "view_prompt"
    /\ \E month \in ViewMonths, year \in ViewYears, ok \in BOOLEAN :
         IF month < 1 \/ month > 12 \/ year < 1900 \/ year > 2100
         THEN UNCHANGED <<pc, arg, exists, count>>
         ELSE LET found == check_month_year_exists(ok, month, year)
              IN  /\ arg' = [month |-> month, year |-> year]
                  /\ exists' = found[1]
                  /\ count' = found[2]
                  /\ pc' = IF found[1] THEN "view_load" ELSE "view_listing"
    /\ UNCHANGED <<ret, CATEGORY_KEYWORDS, dbVars, run, combined_df, data_month,
                   data_year, engine, seen, log>>

\* "No data found for ...": the available months are listed from
\* db.get_transactions() and a retry is offered
ViewListing ==
    /\ pc = "view_listing"
    /\ \E ok \in BOOLEAN, retry \in {"y", "n"} :
       \E all_data \in get_transactions(ok, NoDate, NoDate, NoText, NoText, NoLimit) :
         IF all_data.rows # <<>> /\ "date" \notin all_data.columns
         THEN \* all_data['date'] raises KeyError, which `except ValueError` lets through
              /\ pc' = "crashed"
              /\ engine' = engine
         ELSE IF retry # "y"
         THEN /\ engine' = "disposed"
              /\ pc' = "returned"
         ELSE /\ engine' = engine
              /\ pc' = "view_prompt"
    /\ UNCHANGED <<fnVars, CATEGORY_KEYWORDS, dbVars, run, combined_df, data_month,
                   data_year, exists, count, seen, log>>

\* the month's rows are read and renamed, db.close(), then the reports
ViewLoad ==
    /\ pc = "view_load"
    /\ \E ok \in BOOLEAN :
       \E got \in get_transactions(ok, MonthStart(arg.year, arg.month),
                                   MonthEnd(arg.year, arg.month), NoText, NoText, NoLimit) :
         IF "date" \notin RenamedColumns(got.columns)
         THEN \* combined_df['date'] raises KeyError on the frame of a failed query
              /\ pc' = "crashed"
              /\ combined_df' = EmptyFrame
              /\ engine' = engine
         ELSE /\ combined_df' = Renamed(got.rows)
              /\ engine' = "disposed"
              /\ pc' = "returned"
    /\ UNCHANGED <<fnVars, CATEGORY_KEYWORDS, dbVars, run, data_month, data_year,
                   exists, count, seen, log>>

Next ==
    \/ StartMain
    \/ Upload
    \/ Connect
    \/ CreateTable
    \/ CheckExists
    \/ ClearMonth
    \/ Insert
    \/ ReturnAfterFailedInsert
    \/ Close
    \/ ReaderQuery
    \/ ViewConnect
    \/ ViewStats
    \/ ViewPrompt
    \/ ViewListing
    \/ ViewLoad

Spec == InitMain /\ [][Next]_vars

----------------------------------------------------------------------------
(* the combination of the adapters' outputs, on its own *)

CombineDates ==
    {DateText("%Y-%m-%d", <<2025, 12, 1>>), DateText("%Y-%m-%d", <<2025, 12, 2>>), EmptyDate}

\* rows as the adapters return them; the description tells them apart
CombineRows ==
    {Row(d, Num(5), desc, "RBC", "Other") : d \in CombineDates, desc \in {<<"a">>, <<"b">>}}

InitCombine ==
    /\ pc = "call"
    /\ CATEGORY_KEYWORDS = <<>>
    /\ \E first \in SeqsUpTo(CombineRows, MaxAdapterRows) :
         \E second \in SeqsUpTo(CombineRows, MaxAdapterRows) :
           arg = <<Frame(first), Frame(second)>>
    /\ ret = None
    /\ Fresh

Combine ==
    /\ pc = "call"
    /\ ret' \in combine(arg)
    /\ pc' = "return"
    /\ UNCHANGED <<arg, CATEGORY_KEYWORDS, dbVars, mainVars, seen, log>>

NextCombine == Combine

SpecCombine == InitCombine /\ [][NextCombine]_vars

----------------------------------------------------------------------------
(* get_transactions called on any table *)

QueryDates == {<<2025, 12, 1>>, <<2025, 12, 2>>}

StoredRows ==
    [dt : QueryDates, amt : {Num(5)}, desc : {<<"a">>},
     account : {"RBC", "Scotiabank"}, category : {"Coffee", "Other"}]

\* the table holding the rows of a sequence, numbered by the SERIAL column
StoreOf(rows) ==
    {[txn_id |-> i, dt |-> rows[i].dt, amt |-> rows[i].amt, desc |-> rows[i].desc,
      account |-> rows[i].account, category |-> rows[i].category, created_at |-> 0] :
        i \in 1..Len(rows)}

InitQuery ==
    /\ pc = "call"
    /\ CATEGORY_KEYWORDS = <<>>
    /\ arg \in [start_date : {NoDate} \cup QueryDates, end_date : {NoDate} \cup QueryDates,
                category : {NoText, "Coffee"}, account : {NoText, "RBC"},
                limit : {NoLimit, <<0>>, <<1>>}]
    /\ ret = None
    /\ \E rows \in SeqsUpTo(StoredRows, MaxStored) :
         /\ txn = StoreOf(rows)
         /\ txn_id_seq = Len(rows) + 1
    /\ table_exists = TRUE
    /\ run = 0
    /\ combined_df = EmptyFrame
    /\ data_month = 0
    /\ data_year = 0
    /\ exists = FALSE
    /\ count = 0
    /\ engine = "connected"
    /\ seen = <<>>
    /\ log = NoLog

Query ==
    /\ pc = "call"
    /\ \E ok \in BOOLEAN :
         /\ ret' \in get_transactions(ok, arg.start_date, arg.end_date, arg.category,
                                      arg.account, arg.limit)
         /\ pc' = IF ok THEN "return" ELSE "failed"
    /\ UNCHANGED <<arg, CATEGORY_KEYWORDS, dbVars, mainVars, seen, log>>

NextQuery == Query

SpecQuery == InitQuery /\ [][NextQuery]_vars

----------------------------------------------------------------------------
(* each persistence operation called once, on a store that may fail *)

PersistenceOps ==
    {"connect", "create_txn_table", "insert_transactions", "get_transactions",
     "get_summary_stats", "clear_table", "clear_month_year_data"}

PersistenceFrames ==
    {Frame(rows) :
        rows \in SeqsUpTo({Row(Timestamp(<<2025, 12, 1>>), Num(5), <<"a">>, "RBC", "Coffee"),
                           Row(Timestamp(<<2025, 12, 1>>), NaN, <<"a">>, "RBC", "Coffee")}, 1)}

InitPersistence ==
    /\ pc = "call"
    /\ CATEGORY_KEYWORDS = <<>>
    /\ arg \in [op : PersistenceOps, df : PersistenceFrames]
    /\ ret = None
    /\ table_exists \in BOOLEAN
    /\ \E rows \in SeqsUpTo(StoredRows, MaxStored) :
         /\ txn = IF table_exists THEN StoreOf(rows) ELSE {}
         /\ txn_id_seq = Cardinality(txn) + 1
    /\ run = 0
    /\ combined_df = EmptyFrame
    /\ data_month = 0
    /\ data_year = 0
    /\ exists = FALSE
    /\ count = 0
    /\ engine = "connected"
    /\ seen = <<>>
    /\ log = NoLog

CallConnect ==
    /\ pc = "call"
    /\ arg.op = "connect"
    /\ \E ok \in BOOLEAN :
         /\ ret' = connect(ok)
         /\ pc' = IF ok THEN "return" ELSE "failed"
    /\ UNCHANGED <<arg, CATEGORY_KEYWORDS, dbVars, mainVars, seen, log>>

CallCreateTable ==
    /\ pc = "call"
    /\ arg.op = "create_txn_table"
    /\ \E ok \in BOOLEAN :
         /\ ret' = create_txn_table(ok)
         /\ table_exists' = (table_exists \/ ok)
         /\ pc' = IF ok THEN "return" ELSE "failed"
    /\ UNCHANGED <<arg, CATEGORY_KEYWORDS, txn, txn_id_seq, mainVars, seen, log>>

CallInsert ==
    /\ pc = "call"
    /\ arg.op = "insert_transactions"
    /\ \E ok \in BOOLEAN :
         LET done == insert_transactions(arg.df, RequiredColumns, ok)
         IN  /\ ret' = done.result
             /\ txn' = txn \cup done.rows
             /\ txn_id_seq' = txn_id_seq + Cardinality(done.rows)
             /\ table_exists' = (table_exists \/ done.result)
             /\ pc' = IF done.result THEN "return" ELSE "failed"
    /\ UNCHANGED <<arg, CATEGORY_KEYWORDS, mainVars, seen, log>>

CallGetTransactions ==
    /\ pc = "call"
    /\ arg.op = "get_transactions"
    /\ \E ok \in BOOLEAN :
         /\ ret' \in get_transactions(ok, NoDate, NoDate, NoText, NoText, NoLimit)
         /\ pc' = IF ok /\ table_exists THEN "return" ELSE "failed"
    /\ UNCHANGED <<arg, CATEGORY_KEYWORDS, dbVars, mainVars, seen, log>>

CallSummary ==
    /\ pc = "call"
    /\ arg.op = "get_summary_stats"
    /\ \E ok \in BOOLEAN :
         /\ ret' = get_summary_stats(ok)
         /\ pc' = IF ok /\ table_exists THEN "return" ELSE "failed"
    /\ UNCHANGED <<arg, CATEGORY_KEYWORDS, dbVars, mainVars, seen, log>>

CallClearTable ==
    /\ pc = "call"
    /\ arg.op = "clear_table"
    /\ \E ok \in BOOLEAN :
         LET done == clear_table(ok)
         IN  /\ ret' = done.result
             /\ txn' = done.rows
             /\ pc' = IF ok /\ table_exists THEN "return" ELSE "failed"
    /\ UNCHANGED <<arg, CATEGORY_KEYWORDS, txn_id_seq, table_exists, mainVars, seen, log>>

CallClearMonth ==
    /\ pc = "call"
    /\ arg.op = "clear_month_year_data"
    /\ \E ok \in BOOLEAN :
         LET done == clear_month_year_data(ok, 12, 2025)
         IN  /\ ret' = done.result
             /\ txn' = done.rows
             /\ pc' = IF ok /\ table_exists THEN "return" ELSE "failed"
    /\ UNCHANGED <<arg, CATEGORY_KEYWORDS, txn_id_seq, table_exists, mainVars, seen, log>>

NextPersistence ==
    \/ CallConnect
    \/ CallCreateTable
    \/ CallInsert
    \/ CallGetTransactions
    \/ CallSummary
    \/ CallClearTable
    \/ CallClearMonth

SpecPersistence == InitPersistence /\ [][NextPersistence]_vars

----------------------------------------------------------------------------
(* etl/threshold_checker.py: the configuration file and the analysis *)

\* what a function returned, or the exception that left it
Returned(value) == [error |-> "", value |-> value]
Raised(e) == [error |-> e, value |-> <<>>]

\* the dict built so far by the comprehension: a later item replaces an
\* earlier one of the same category
RECURSIVE ThresholdDict(_)
ThresholdDict(items) ==
    IF items = <<>> THEN <<>>
    ELSE LET last == items[Len(items)]
             before == ThresholdDict(SubSeq(items, 1, Len(items) - 1))
         IN  [c \in DOMAIN before \cup {last.category} |->
                 IF c = last.category THEN last.limit ELSE before[c]]

\* the exception item['category'] or item['limit'] raises on one item
ItemError(item) ==
    IF item.type # "record" THEN "TypeError"
    ELSE IF ~({"category", "limit"} \subseteq item.keys) THEN "KeyError"
    ELSE ""

\* load_threshold_config: only FileNotFoundError and json.JSONDecodeError are
\* caught. Iterating a JSON object yields its keys, and a string has no
\* item 'category' (TypeError); a number or null cannot be iterated (TypeError).
load_threshold_config(file) ==
    IF file.kind \in {"missing", "invalid"} THEN Returned(<<>>)
    ELSE IF file.kind = "scalar" THEN Raised("TypeError")
    ELSE IF file.kind = "object"
    THEN IF file.items = <<>> THEN Returned(<<>>) ELSE Raised("TypeError")
    ELSE IF \E i \in 1..Len(file.items) : ItemError(file.items[i]) # ""
    THEN Raised(ItemError(file.items[CHOOSE i \in 1..Len(file.items) :
                              /\ ItemError(file.items[i]) # ""
                              /\ \A h \in 1..(i - 1) : ItemError(file.items[h]) = ""]))
    ELSE Returned(ThresholdDict(file.items))

\* analyze_threshold_violations: the frame returned, or the exception
analyze_threshold_violations(transactions_df, file) ==
    LET threshold_config == load_threshold_config(file)
    IN  IF threshold_config.error # "" THEN Raise(threshold_config.error)
        ELSE IF DOMAIN threshold_config.value = {} THEN Ok(EmptyFrame)
        ELSE Ok(check_transaction_thresholds(transactions_df, threshold_config.value))

ConfigItems ==
    [type : {"record"}, keys : SUBSET {"category", "limit"},
     category : {"Coffee"}, limit : {100}]
    \cup {[type |-> "number", keys |-> {}, category |-> "", limit |-> 0]}

\* the file: absent, not JSON, a JSON number, a JSON object, or a JSON list
ConfigFiles ==
    {[kind |-> k, items |-> <<>>] : k \in {"missing", "invalid", "scalar", "object"}}
    \cup {[kind |-> "object", items |-> <<item>>] : item \in ConfigItems}
    \cup {[kind |-> "list", items |-> items] : items \in SeqsUpTo(ConfigItems, MaxConfigItems)}

ConfigRows ==
    {Row(<<2025, 12, 15>>, Num(a), <<"a">>, "RBC", "Coffee") : a \in {50, 150}}

InitConfig ==
    /\ pc = "call"
    /\ CATEGORY_KEYWORDS = <<>>
    /\ arg \in [file : ConfigFiles,
                transactions_df : {Frame(rows) : rows \in SeqsUpTo(ConfigRows, 1)}]
    /\ ret = None
    /\ Fresh

LoadConfig ==
    /\ pc = "call"
    /\ ret' = load_threshold_config(arg.file)
    /\ pc' = "loaded"
    /\ UNCHANGED <<arg, CATEGORY_KEYWORDS, dbVars, mainVars, seen, log>>

Analyze ==
    /\ pc = "call"
    /\ ret' = analyze_threshold_violations(arg.transactions_df, arg.file)
    /\ pc' = "analyzed"
    /\ UNCHANGED <<arg, CATEGORY_KEYWORDS, dbVars, mainVars, seen, log>>

NextConfig == LoadConfig \/ Analyze

SpecConfig == InitConfig /\ [][NextConfig]_vars

----------------------------------------------------------------------------
(* insert_transactions called on any frame *)

InsertDates ==
    {Timestamp(<<2025, 12, 1>>), Timestamp(<<2025, 12, 2>>), NaT, DateText("?", <<0, 0, 0>>)}

InsertRows ==
    [date : InsertDates, amount : {Num(5), NaN, Str(<<"x">>)},
     description : {<<"a">>, <<>>}, account : {"RBC", NoText},
     category : {"Coffee", NoText}]

InitInsert ==
    /\ pc = "call"
    /\ CATEGORY_KEYWORDS = <<>>
    /\ arg \in [df : {Frame(rows) : rows \in SeqsUpTo(InsertRows, MaxBatch)},
                columns : {RequiredColumns, RequiredColumns \ {"category"}}]
    /\ ret = None
    /\ Fresh

InsertCall ==
    /\ pc = "call"
    /\ \E ok \in BOOLEAN :
         LET done == insert_transactions(arg.df, arg.columns, ok)
         IN  /\ ret' = done.result
             /\ txn' = txn \cup done.rows
             /\ txn_id_seq' = txn_id_seq + Cardinality(done.rows)
    /\ table_exists' = TRUE
    /\ pc' = "return"
    /\ UNCHANGED <<arg, CATEGORY_KEYWORDS, mainVars, seen, log>>

\* db.get_summary_stats() after an insert that returned True
Summary ==
    /\ pc = "return"
    /\ ret = TRUE
    /\ \E ok \in BOOLEAN : ret' = get_summary_stats(ok)
    /\ pc' = "summarized"
    /\ UNCHANGED <<arg, CATEGORY_KEYWORDS, dbVars, mainVars, seen, log>>

NextInsert == InsertCall \/ Summary

SpecInsert == InitInsert /\ [][NextInsert]_vars

(***************************************************************************)
(* Properties                                                              *)
(***************************************************************************)

\* two characters that differ at most in case
SameLetter(c, d) == c = d \/ {c, d} = {"a", "A"} \/ {c, d} = {"b", "B"}

\* keyword k occurs in text s as a case-insensitive substring
OccursIgnoringCase(k, s) ==
    \E i \in 0..(Len(s) - Len(k)) : \A j \in 1..Len(k) : SameLetter(k[j], s[i + j])

\* rule i of the rule set has a keyword occurring in the description
RuleMatches(i, description) ==
    \E j \in 1..Len(CATEGORY_KEYWORDS[i].keywords) :
        OccursIgnoringCase(CATEGORY_KEYWORDS[i].keywords[j], description)

\* C9: categorize_transaction returns the first category, in declaration
\* order, one of whose keywords occurs in the description ignoring case, and
\* "Uncategorized" when no keyword of any category occurs in it.
C9_FirstDeclaredCategoryWins ==
    pc = "return" =>
        /\ \A i \in 1..Len(CATEGORY_KEYWORDS) :
               (RuleMatches(i, arg) /\ \A h \in 1..(i - 1) : ~RuleMatches(h, arg))
                   => ret = CATEGORY_KEYWORDS[i].category
        /\ (\A i \in 1..Len(CATEGORY_KEYWORDS) : ~RuleMatches(i, arg))
               => ret = "Uncategorized"

\* two categories both match the description and the first-declared is returned
C9_Witness ==
    /\ pc = "return"
    /\ Len(CATEGORY_KEYWORDS) = 2
    /\ RuleMatches(1, arg) /\ RuleMatches(2, arg)
    /\ \E i \in 1..Len(arg) : arg[i] = "a"
    /\ ret = CATEGORY_KEYWORDS[1].category

\* a row passes the filter: its amount is a number and greater than zero
Positive(row) == ~row.amount.nan /\ row.amount.v > 0

\* C8: filter_cr returns all and only the input rows whose amount is a valid
\* number and > 0, in their original relative order (and under their labels).
C8_FilterKeepsExactlyPositiveRowsInOrder ==
    pc = "return" =>
        LET kept == {i \in 1..Len(arg.data) : Positive(arg.data[i])}
        IN  /\ Len(ret.data) = Cardinality(kept)
            /\ Len(ret.index) = Cardinality(kept)
            /\ \A k \in 1..Len(ret.data) :
                   \E i \in kept :
                       /\ Cardinality({j \in kept : j < i}) = k - 1
                       /\ ret.data[k] = arg.data[i]
                       /\ ret.index[k] = arg.index[i]

\* a frame mixing credits, a zero, a NaN and two distinct expenses was filtered
C8_Witness ==
    /\ pc = "return"
    /\ Len(arg.data) = 3
    /\ \E i \in 1..3 : ~Positive(arg.data[i])
    /\ Len(ret.data) = 2
    /\ ret.data[1] # ret.data[2]

\* the limit that applies to a row, or 0 when its category has none
LimitOf(row, config) == IF row.category \in DOMAIN config THEN config[row.category] ELSE 0

Magnitude(row) == IF row.amount.v < 0 THEN 0 - row.amount.v ELSE row.amount.v

Violates(row, config) ==
    /\ row.category \in DOMAIN config
    /\ config[row.category] > 0
    /\ ~row.amount.nan
    /\ Magnitude(row) > config[row.category]

\* C10: a violation is emitted for a transaction iff its category has a limit
\* > 0 and abs(amount) is strictly greater than it; the violation carries
\* threshold = the limit and excess_amount = abs(amount) - threshold > 0.
C10_ViolationIffStrictlyOverPositiveLimit ==
    pc = "return" =>
        LET df == arg.transactions_df
            config == arg.threshold_config
        IN  /\ \A i \in 1..Len(df.data) :
                   Violates(df.data[i], config)
                       <=> \E k \in 1..Len(ret.index) : ret.index[k] = df.index[i]
            /\ \A k \in 1..Len(ret.index) :
                   \E i \in 1..Len(df.data) :
                       /\ df.index[i] = ret.index[k]
                       /\ ret.data[k].amount = df.data[i].amount
                       /\ ret.data[k].category = df.data[i].category
                       /\ ret.data[k].threshold = Num(config[df.data[i].category])
                       /\ ret.data[k].excess_amount
                              = Num(Magnitude(df.data[i]) - config[df.data[i].category])
                       /\ ret.data[k].excess_amount.v > 0
            /\ \A k1, k2 \in 1..Len(ret.index) : ret.index[k1] = ret.index[k2] => k1 = k2

\* one frame holds a row over its limit, a row exactly at its limit and a row
\* whose category has no positive limit; only the first is reported
C10_Witness ==
    /\ pc = "return"
    /\ "Dining" \in DOMAIN arg.threshold_config
    /\ arg.threshold_config["Dining"] = 100
    /\ "Coffee" \in DOMAIN arg.threshold_config => arg.threshold_config["Coffee"] <= 0
    /\ Len(arg.transactions_df.data) = 3
    /\ arg.transactions_df.data[1].amount = Num(100)
    /\ arg.transactions_df.data[1].category = "Dining"
    /\ arg.transactions_df.data[2].amount = Num(150)
    /\ arg.transactions_df.data[2].category = "Coffee"
    /\ arg.transactions_df.data[3].amount = Num(0 - 150)
    /\ arg.transactions_df.data[3].category = "Dining"
    /\ Len(ret.data) = 1
    /\ ret.data[1].excess_amount = Num(50)

\* the magnitude a cell states, currency formatting allowed: $5 or 1,5
IsMagnitude(text) ==
    /\ IsNumeric(StripCurrency(text))
    /\ ParseFloat(StripCurrency(text)).v > 0

\* a plain unsigned or signed number, as CIBC and Scotia write amounts
PlainValue(text) == IF IsNumeric(text) THEN ParseFloat(text).v ELSE 0

\* the raw row states money spent, in the institution's own convention:
\* AMEX a positive Amount, CIBC a magnitude in the debit column, Scotia a
\* negative Amount, RBC a magnitude in Debit and an empty Credit
Spent(inst, r) ==
    CASE inst = "AMEX" -> IsNumeric(StripCurrency(r.Amount))
                             /\ ParseFloat(StripCurrency(r.Amount)).v > 0
      [] inst = "CIBC" -> PlainValue(r.Amount) > 0 /\ r.CR = <<>>
      [] inst = "Scotia" -> PlainValue(r.Amount) < 0
      [] OTHER -> IsMagnitude(r.Debit) /\ r.Credit = <<>>

\* the raw row states money received
Received(inst, r) ==
    CASE inst = "AMEX" -> IsNumeric(StripCurrency(r.Amount))
                             /\ ParseFloat(StripCurrency(r.Amount)).v < 0
      [] inst = "CIBC" -> PlainValue(r.CR) > 0 /\ r.Amount = <<>>
      [] inst = "Scotia" -> PlainValue(r.Amount) > 0
      [] OTHER -> IsMagnitude(r.Credit) /\ r.Debit = <<>>

\* the export has the institution's columns, and every row has a date in the
\* institution's format and states money spent or money received
WellFormedExport(inst, raw) ==
    /\ NativeColumns(inst) \subseteq raw.columns
    /\ \A i \in 1..Len(raw.rows) :
        /\ raw.rows[i].Date.fmt = NativeFormat(inst)
        /\ Spent(inst, raw.rows[i]) \/ Received(inst, raw.rows[i])

AmountPositive(x) == ~IsStr(x) /\ ~x.nan /\ x.v > 0

SignsNormalized(inst) ==
    (pc = "return" /\ Institution(arg.file_path) = inst
        /\ WellFormedExport(inst, arg.raw)) =>
        /\ ret.error = ""
        /\ Len(ret.df.data) = Len(arg.raw.rows)
        /\ \A i \in 1..Len(arg.raw.rows) :
               /\ Spent(inst, arg.raw.rows[i]) => AmountPositive(ret.df.data[i].amount)
               /\ Received(inst, arg.raw.rows[i]) => ~AmountPositive(ret.df.data[i].amount)

\* C7: for each of the four adapters a raw row stating money spent yields an
\* amount > 0 and a row stating money received an amount that is not > 0; for
\* RBC a Debit magnitude d > 0 with an empty Credit yields an amount > 0.
C7_SignNormalization ==
    \A inst \in {"AMEX", "CIBC", "Scotia", "RBC"} : SignsNormalized(inst)

\* C7, the part the code satisfies: the same statement for AMEX, CIBC and Scotia
C7_SignNormalizationExceptRbc ==
    \A inst \in {"AMEX", "CIBC", "Scotia"} : SignsNormalized(inst)

\* an RBC row with a Debit of 5 and an empty Credit was normalised to -5
C7_WitnessRbcDebit ==
    /\ pc = "return"
    /\ Institution(arg.file_path) = "RBC"
    /\ Len(arg.raw.rows) = 1
    /\ Spent("RBC", arg.raw.rows[1])
    /\ ret.error = ""
    /\ ret.df.data[1].amount = Num(0 - 5)

\* the rows the month being uploaded held when the run checked for them
OldRows == MonthRows(log.before, data_month, data_year)

\* the rows of the month being uploaded that the table holds now
NowRows == MonthRows(txn, data_month, data_year)

\* the transactions the run uploads, as Content sees them
NewContent ==
    LET clean == CleanRows(combined_df.data)
    IN  Content({[txn_id |-> i, dt |-> clean[i].dt, amt |-> clean[i].amt,
                  desc |-> clean[i].desc, account |-> clean[i].account,
                  category |-> clean[i].category] : i \in 1..Len(clean)})

\* C1: when the month's rows have been deleted and the insert that follows
\* fails, the table holds for that month exactly the rows it held before.
C1_FailedInsertRestoresMonth ==
    (pc = "insert_failed" /\ log.cleared /\ OldRows # {}) => NowRows = OldRows

\* the insert failed after the rows of a Present month were deleted
C1_Witness == pc = "insert_failed" /\ log.cleared /\ OldRows # {}

\* C2: a reader that queries a Present month while it is being replaced sees
\* exactly its old rows or exactly its new rows, never none and never a mix.
C2_ReaderSeesOldOrNew ==
    \A i \in 1..Len(seen) :
        OldRows # {} =>
            LET got == MonthRows(seen[i], data_month, data_year)
            IN  Content(got) = Content(OldRows) \/ Content(got) = NewContent

\* a reader queried a Present month while its replace was going on
C2_Witness == Len(seen) > 0 /\ OldRows # {} /\ log.cleared

SameMonth(a, b) == a[1] = b[1] /\ a[2] = b[2]

\* C3: after any sequence of upload runs, failed store reads and writes
\* included, no month holds rows that come from more than one run.
C3_MonthHoldsOneRun ==
    \A r1 \in txn : \A r2 \in txn : SameMonth(r1.dt, r2.dt) => r1.created_at = r2.created_at

\* a second run uploaded the month the first run had uploaded
C3_Witness ==
    /\ run = 2
    /\ pc = "close"
    /\ \E r \in log.before : SameMonth(r.dt, <<data_year, data_month, 1>>)

\* C4: replacing a month with a batch twice in succession leaves the table with
\* the same multiset of transactions as replacing it once (two runs in a row
\* that upload the same frame and in which no store operation failed).
C4_ReplaceTwiceSameAsOnce ==
    (/\ "run" \in DOMAIN log.prev
     /\ "run" \in DOMAIN log.cur
     /\ log.cur.run = log.prev.run + 1
     /\ log.cur.clean /\ log.prev.clean
     /\ log.cur.batch = log.prev.batch)
        => log.cur.after = log.prev.after

\* the second and third run uploaded the same one-row frame for the month in
\* which the first run had stored two rows
C4_Witness ==
    /\ "run" \in DOMAIN log.prev
    /\ "run" \in DOMAIN log.cur
    /\ log.cur.run = log.prev.run + 1
    /\ log.cur.clean /\ log.prev.clean
    /\ log.cur.batch = log.prev.batch
    /\ Len(log.cur.batch) = 1
    /\ txn_id_seq = 5
    /\ Cardinality(txn) = 1

\* a row of a frame has every value insert_transactions needs
ValidRow(row) ==
    /\ row.date.fmt \notin {"", "?"}
    /\ ~row.amount.nan /\ (IsStr(row.amount) => IsNumeric(row.amount.str))
    /\ row.description # <<>>
    /\ row.account # NoText
    /\ row.category # NoText

\* C5: insert_transactions is all-or-nothing: when a row of the batch is
\* invalid the call reports failure and adds no row; it adds rows only when
\* every row of the batch is valid.
C5_InsertAllOrNothing ==
    pc = "return" =>
        /\ (\E i \in 1..Len(arg.df.data) : ~ValidRow(arg.df.data[i]))
               => (ret = FALSE /\ txn = {})
        /\ txn # {} => \A i \in 1..Len(arg.df.data) : ValidRow(arg.df.data[i])

\* a batch of one valid and one invalid row was handed to insert_transactions
C5_Witness ==
    /\ pc = "return"
    /\ Len(arg.df.data) = 2
    /\ ValidRow(arg.df.data[1])
    /\ ~ValidRow(arg.df.data[2])
    /\ arg.columns = RequiredColumns

RECURSIVE StableOrder(_)
StableOrder(rows) ==
    IF rows = <<>> THEN <<>>
    ELSE LET rest == StableOrder(SubSeq(rows, 1, Len(rows) - 1))
             last == rows[Len(rows)]
             k == Cardinality({i \in 1..Len(rest) : ~SortsBefore(last.date, rest[i].date)})
         IN  SubSeq(rest, 1, k) \o <<last>> \o SubSeq(rest, k + 1, Len(rest))

\* the concatenated rows, each with its date as a Timestamp and nothing else changed
Concatenated(frames) ==
    LET concat == Concat(frames)
    IN  [i \in 1..Len(concat) |-> WithDate(concat[i], ToDatetime(concat[i].date))]

\* C11: the combined collection is sorted by date ascending, rows with equal
\* dates are in the order of their concatenation (stable sort), and no field
\* of a row is changed.
C11_CombinedSortedStable ==
    (pc = "return" /\ ret.error = "") => ret.df.data = StableOrder(Concatenated(arg))

\* the part of C11 the code satisfies: sorted by date ascending, missing dates
\* last, and the same rows as were concatenated
C11_CombinedSortedSameRows ==
    (pc = "return" /\ ret.error = "") =>
        /\ \A i \in 1..Len(ret.df.data) : \A j \in (i + 1)..Len(ret.df.data) :
               ~SortsBefore(ret.df.data[j].date, ret.df.data[i].date)
        /\ \E o \in Orders(Len(Concatenated(arg))) :
               ret.df.data = [i \in 1..Len(o) |-> Concatenated(arg)[o[i]]]

\* two rows of one date from different adapter outputs were combined
C11_Witness ==
    /\ pc = "return"
    /\ ret.error = ""
    /\ Len(arg[1].data) = 1
    /\ Len(arg[2].data) = 1
    /\ arg[1].data[1].date = arg[2].data[1].date
    /\ arg[1].data[1].date # EmptyDate
    /\ arg[1].data[1].description # arg[2].data[1].description

\* C12: the violations that check_transaction_thresholds returns are ordered
\* by excess_amount descending.
C12_ViolationsOrderedByExcess ==
    pc = "return" =>
        \A i \in 1..Len(ret.data) : \A j \in (i + 1)..Len(ret.data) :
            ~Gt(ret.data[j].excess_amount, ret.data[i].excess_amount)

\* two violations with different excess amounts were returned
C12_Witness ==
    /\ pc = "return"
    /\ Len(ret.data) = 2
    /\ ret.data[1].excess_amount # ret.data[2].excess_amount

\* the stored rows that satisfy every filter the call supplies
Matching ==
    {r \in txn :
        /\ arg.start_date # NoDate => DateLe(arg.start_date, r.dt)
        /\ arg.end_date # NoDate => DateLe(r.dt, arg.end_date)
        /\ arg.category # NoText => r.category = arg.category
        /\ arg.account # NoText => r.account = arg.account}

\* the result holds no row twice, only matching rows, in date order, newest first
OrderedMatching ==
    /\ Range(ret.rows) \subseteq Matching
    /\ Cardinality(Range(ret.rows)) = Len(ret.rows)
    /\ \A i \in 1..Len(ret.rows) : \A j \in (i + 1)..Len(ret.rows) : ~DateLt(ret.rows[i].dt, ret.rows[j].dt)

Min(a, b) == IF a < b THEN a ELSE b

\* C13: a query that succeeds returns exactly the stored rows that satisfy
\* every supplied filter, ordered by date descending, and cut to at most
\* `limit` rows (the newest ones) when a limit is supplied.
C13_QueryFiltersOrdersLimits ==
    pc = "return" =>
        /\ OrderedMatching
        /\ Len(ret.rows) = IF arg.limit = NoLimit THEN Cardinality(Matching)
                      ELSE Min(arg.limit[1], Cardinality(Matching))
        /\ \A r \in Matching \ Range(ret.rows) : \A i \in 1..Len(ret.rows) : ~DateLt(ret.rows[i].dt, r.dt)

\* the part of C13 the code satisfies: the same, where a limit of 0 cuts nothing
C13_QueryExceptLimitZero ==
    pc = "return" =>
        /\ OrderedMatching
        /\ Len(ret.rows) = IF arg.limit \in {NoLimit, <<0>>} THEN Cardinality(Matching)
                      ELSE Min(arg.limit[1], Cardinality(Matching))
        /\ \A r \in Matching \ Range(ret.rows) : \A i \in 1..Len(ret.rows) : ~DateLt(ret.rows[i].dt, r.dt)

\* a query with a limit of 0 succeeded on a table that holds matching rows
C13_Witness == pc = "return" /\ arg.limit = <<0>> /\ Matching # {}

\* what a caller can test on the value an operation returned
SignalsFailure(op, value) ==
    CASE op = "get_transactions" -> value.columns = {}
      [] op = "get_summary_stats" -> DOMAIN value = {}
      [] OTHER -> value = FALSE

\* C14: a persistence operation whose statement fails (store unreachable,
\* statement rejected) returns a value, and that value is one the operation
\* never returns when it succeeds.
C14_FailureOutcomeDistinct ==
    /\ pc = "failed" => SignalsFailure(arg.op, ret)
    /\ pc = "return" => ~SignalsFailure(arg.op, ret)

\* get_transactions failed; elsewhere it succeeds on a table without rows
C14_Witness == pc = "failed" /\ arg.op = "get_transactions" /\ table_exists /\ txn = {}

\* a non-empty amount cell that is no number once "$" and "," are removed
BadAmountText(text) == text # <<>> /\ ~IsNumeric(StripCurrency(text))

\* the raw row has a date or an amount that cannot be parsed under the
\* institution's format
Unparseable(inst, r) ==
    \/ r.Date.fmt \notin {"", NativeFormat(inst)}
    \/ IF inst = "RBC" THEN BadAmountText(r.Debit) \/ BadAmountText(r.Credit)
       ELSE BadAmountText(r.Amount)

Parseable(inst, rows) == SelectSeq(rows, LAMBDA r : ~Unparseable(inst, r))

\* C15: when rows of an AMEX or RBC export have a date or an amount that
\* cannot be parsed, the adapter rejects only those rows: it returns, in
\* order, one row with a numeric amount for every other row of the file.
C15_ParseFailureRowScoped ==
    (/\ pc = "return"
     /\ Institution(arg.file_path) \in {"AMEX", "RBC"}
     /\ NativeColumns(Institution(arg.file_path)) \subseteq arg.raw.columns) =>
        LET kept == Parseable(Institution(arg.file_path), arg.raw.rows)
        IN  /\ ret.error = ""
            /\ Len(ret.df.data) = Len(kept)
            /\ \A i \in 1..Len(kept) :
                   /\ ret.df.data[i].description = kept[i].Description
                   /\ ~IsStr(ret.df.data[i].amount)

\* an AMEX export with a good row followed by a row whose amount is no number
C15_Witness ==
    /\ pc = "return"
    /\ Institution(arg.file_path) = "AMEX"
    /\ NativeColumns("AMEX") \subseteq arg.raw.columns
    /\ Len(arg.raw.rows) = 2
    /\ ~Unparseable("AMEX", arg.raw.rows[1])
    /\ BadAmountText(arg.raw.rows[2].Amount)

\* the export lacks a column the adapter expects (a CIBC file has no header:
\* it lacks a field only when it has rows without it)
ColumnAbsent ==
    /\ ~(NativeColumns(Institution(arg.file_path)) \subseteq arg.raw.columns)
    /\ Institution(arg.file_path) = "CIBC" => arg.raw.rows # <<>>

\* C16: when a column the adapter expects is absent from the export, the
\* adapter fails with an error and returns no row.
C16_AbsentColumnFails ==
    (pc = "return" /\ ColumnAbsent) => (ret.error # "" /\ ret.df.data = <<>>)

\* the part of C16 the code satisfies: the same for AMEX, Scotia and RBC
C16_AbsentColumnFailsExceptCibc ==
    (pc = "return" /\ ColumnAbsent /\ Institution(arg.file_path) # "CIBC")
        => (ret.error # "" /\ ret.df.data = <<>>)

\* a CIBC file with rows but without the amount field was normalised
C16_Witness ==
    /\ pc = "return"
    /\ Institution(arg.file_path) = "CIBC"
    /\ arg.raw.columns = {"Date", "Description"}
    /\ Len(arg.raw.rows) > 0

\* the file holds a JSON list of records that each have category and limit
WellFormedConfig(file) ==
    /\ file.kind = "list"
    /\ \A i \in 1..Len(file.items) :
           file.items[i].type = "record" /\ {"category", "limit"} \subseteq file.items[i].keys

\* C17: for a missing file and for every malformed configuration,
\* load_threshold_config returns the empty rule set without raising, and
\* analyze_threshold_violations then returns no violation.
C17_BadConfigDegradesToEmpty ==
    ~WellFormedConfig(arg.file) =>
        /\ pc = "loaded" => (ret.error = "" /\ DOMAIN ret.value = {})
        /\ pc = "analyzed" => (ret.error = "" /\ ret.df.data = <<>>)

\* the part of C17 the code satisfies: a missing file and a file that is not JSON
C17_MissingOrInvalidJsonDegrades ==
    arg.file.kind \in {"missing", "invalid"} =>
        /\ pc = "loaded" => (ret.error = "" /\ DOMAIN ret.value = {})
        /\ pc = "analyzed" => (ret.error = "" /\ ret.df.data = <<>>)

\* a configuration that is valid JSON but a JSON object was loaded
C17_Witness ==
    pc = "loaded" /\ arg.file.kind = "object" /\ arg.file.items # <<>>

\* the frame is one filter_cr leaves unchanged: every amount is a number > 0
Filtered(df) ==
    \A i \in 1..Len(df.data) : ~IsStr(df.data[i].amount) /\ Positive(df.data[i])

\* the dates of the rows of a frame
BatchDates(df) ==
    {df.data[i].date.d : i \in {i \in 1..Len(df.data) : df.data[i].date.fmt \notin {"", "?"}}}

\* C18: after a batch of filtered rows is inserted into the empty table,
\* get_summary_stats reports the number of rows of the batch as
\* total_transactions and their minimum and maximum date as date_range.
C18_SummaryMatchesBatch ==
    (pc = "summarized" /\ Filtered(arg.df) /\ DOMAIN ret # {}) =>
        /\ ret.total_transactions = Len(arg.df.data)
        /\ \A d \in BatchDates(arg.df) :
               ~DateLt(d, ret.date_range.start) /\ ~DateLt(ret.date_range.end, d)
        /\ {ret.date_range.start, ret.date_range.end} \subseteq BatchDates(arg.df)

\* the part of C18 the code satisfies: the same for a batch whose rows are all valid
C18_SummaryMatchesValidBatch ==
    (/\ pc = "summarized"
     /\ \A i \in 1..Len(arg.df.data) : ValidRow(arg.df.data[i])
     /\ Filtered(arg.df)
     /\ DOMAIN ret # {}) =>
        /\ ret.total_transactions = Len(arg.df.data)
        /\ \A d \in BatchDates(arg.df) :
               ~DateLt(d, ret.date_range.start) /\ ~DateLt(ret.date_range.end, d)
        /\ {ret.date_range.start, ret.date_range.end} \subseteq BatchDates(arg.df)

\* the summary was read after the insert of a filtered batch of two rows,
\* one of them without a date
C18_Witness ==
    /\ pc = "summarized"
    /\ DOMAIN ret # {}
    /\ Filtered(arg.df)
    /\ Len(arg.df.data) = 2
    /\ \E i \in 1..2 : arg.df.data[i].date = NaT /\ arg.df.data[i].description # <<>>
                        /\ arg.df.data[i].account # NoText /\ arg.df.data[i].category # NoText

\* C19: filter_cr is idempotent: applied to its own result it returns the
\* frame one application returns, labels and rows alike.
C19_FilterIdempotent ==
    pc = "again" => ret = filter_cr(arg)

\* filter_cr ran twice on a frame of three rows of which the first pass
\* dropped the first two and kept the last
C19_Witness ==
    /\ pc = "again"
    /\ Len(arg.data) = 3
    /\ ret.index = <<2>>
    /\ LeZero(arg.data[1].amount)
    /\ isnan(arg.data[2].amount)

\* the row is dated inside the month being uploaded
InsideM(r) == r.dt[1] = data_year /\ r.dt[2] = data_month

\* C20: a monthly clear and replace of month M leaves every row dated outside
\* M as it was: the clear deletes exactly the rows dated inside M (a clear
\* that fails deletes nothing) and the insert that follows keeps every row
\* and adds only rows dated inside M.
C20_ReplaceLeavesOtherMonths ==
    [][/\ (pc = "clear" /\ pc' = "insert") => txn' = {r \in txn : ~InsideM(r)}
       /\ (pc = "clear" /\ pc' # "insert") => txn' = txn
       /\ pc = "insert" => /\ txn \subseteq txn'
                           /\ \A r \in txn' \ txn : InsideM(r)]_vars

\* December 2025 was cleared and uploaded again while the table held a row
\* dated 1 January 2026, the day the cleared range ends
C20_Witness ==
    /\ pc = "close"
    /\ log.cleared
    /\ data_month = 12
    /\ \E r \in log.before : InsideM(r)
    /\ \E r \in txn : r.dt = <<2026, 1, 1>> /\ r \in log.before
    /\ \E r \in txn : InsideM(r) /\ r \notin log.before

\* the rows the table held when check_month_year_exists ran that are dated
\* inside the month being uploaded
HeldInsideM == {r \in log.before : InsideM(r)}

\* C21: check_month_year_exists reports that data exists, with count n, if and
\* only if the table holds exactly n >= 1 rows dated inside the month; a row
\* dated on the first day of the following month does not make the month
\* count as present (runs in which no store operation failed).
C21_ExistsIffRowsInsideMonth ==
    (pc \in {"clear", "insert"} /\ log.clean) =>
        /\ exists = (Cardinality(HeldInsideM) >= 1)
        /\ count = Cardinality(HeldInsideM)

\* what the code does: the rows counted are those from the first day of the
\* month through the first day of the following month, that day included
C21_ExistsCountsThroughEnd ==
    (pc \in {"clear", "insert"} /\ log.clean) =>
        LET counted == {r \in log.before :
                          /\ DateLe(MonthStart(data_year, data_month), r.dt)
                          /\ DateLe(r.dt, MonthEnd(data_year, data_month))}
        IN  /\ exists = (counted # {})
            /\ count = Cardinality(counted)

\* December 2025 was checked while the table held rows, all of them dated
\* 1 January 2026
C21_Witness ==
    /\ pc = "clear"
    /\ log.clean
    /\ data_month = 12
    /\ data_year = 2025
    /\ log.before # {}
    /\ \A r \in log.before : r.dt = <<2026, 1, 1>>

\* the month <<year, month>> p comes before the month q
PeriodLt(p, q) == p[1] < q[1] \/ (p[1] = q[1] /\ p[2] < q[2])

\* C22: an upload run writes rows of one calendar month only: the month
\* (data_month, data_year) that is checked and cleared is the earliest month
\* of the loaded frame, the frame to insert holds no row dated in another
\* month, and every row the run has inserted is dated inside that month.
C22_RunWritesOneMonth ==
    (pc \in {"connect", "create_table", "check_exists", "clear", "insert",
             "insert_failed", "close"}) =>
        /\ <<data_year, data_month>> \in log.months
        /\ \A p \in log.months : ~PeriodLt(p, <<data_year, data_month>>)
        /\ \A i \in 1..Len(combined_df.data) :
               combined_df.data[i].date # NaT =>
                   /\ combined_df.data[i].date.d[1] = data_year
                   /\ combined_df.data[i].date.d[2] = data_month
        /\ \A r \in txn : r.created_at = run => InsideM(r)

\* a run loaded rows of December 2025 and January 2026 and has inserted its rows
C22_Witness ==
    /\ pc = "close"
    /\ Cardinality(log.months) = 2
    /\ \E r \in txn : r.created_at = run

\* C23: every run of main() that has connected to the database calls
\* db.close() before main returns or terminates.
C23_ConnectedRunCloses ==
    pc \in {"returned", "crashed"} => engine # "open"

\* the part of C23 the code satisfies: a run that returns has closed its connection
C23_ReturningRunCloses ==
    pc = "returned" => engine # "open"

\* the view flow found no data for the month asked for while the table holds
\* rows, and is about to list the available months
C23_Witness ==
    /\ pc = "view_listing"
    /\ engine = "open"
    /\ ~exists
    /\ txn # {}

====
